---- MODULE Spec2Model ----
(***************************************************************************)
(* The persistence schema of citation-analysis-models (src/__init__.py)    *)
(* and its derived-data helpers: the organization hierarchy and its        *)
(* recursive traversals, the author/organization path, the directed        *)
(* coauthor table, the per-year citation series with their delete cascade, *)
(* and the benchmark/suggestions records.                                  *)
(*                                                                         *)
(* A table with a primary key is a function from the keys of its rows to   *)
(* its rows; a table without one (coauthor) is a set of rows.  The store   *)
(* is the transactional one the repository assumes: every write is atomic  *)
(* and a foreign key names an existing row or is NULL.  Objects handed out *)
(* by the ORM are the rows themselves.                                     *)
(***************************************************************************)
EXTENDS Integers, Sequences, FiniteSets, TLC

VARIABLES organization, author, coauthor, author_citations_per_year,
          publication, publication_citations_per_year, benchmark,
          suggestions, cascaded, walk

vars == <<organization, author, coauthor, author_citations_per_year,
          publication, publication_citations_per_year, benchmark,
          suggestions, cascaded, walk>>

(***************************************************************************)
(* Bounds of the model.                                                    *)
(***************************************************************************)
MaxOrg == 3
MaxTreeOrg == 4
MaxAuthor == 2
MaxCoauthor == 3
MaxPublication == 2
MaxYear == 1
MaxBenchmark == 2
MaxSuggestion == 2
MaxWalkOrg == 2
MaxWrites == 2
\* The interpreter's bound on nested calls (sys.getrecursionlimit(), 1000 by
\* default), scaled down; it stays above the depth of every acyclic chain.
RecursionLimit == 5

OrgIds == 1..MaxOrg
TreeOrgIds == 1..MaxTreeOrg
AuthorIds == 1..MaxAuthor
CoauthorIds == 1..MaxCoauthor
PublicationIds == 1..MaxPublication
Years == 1..MaxYear
BenchmarkIds == 1..MaxBenchmark
SuggestionIds == 1..MaxSuggestion
WalkOrgIds == 1..MaxWalkOrg

\* The name given to the organization inserted with each id, and the values
\* of the citations column.
Names == <<"A", "B", "C", "D", "E", "F", "G", "H">>
Citations == {0, 1}

\* The value of a nullable column that is not set.
NULL == 0

NoRows == [k \in {} |-> NULL]

Idle == [pc |-> "idle", op |-> "none", self |-> NULL, acc |-> <<>>,
         stack |-> <<>>, writes |-> 0, views |-> <<>>]

(***************************************************************************)
(* Results of a call: a returned value, or the RecursionError the          *)
(* interpreter raises when the nesting of calls exceeds its limit.         *)
(***************************************************************************)
Return(v) == [raised |-> FALSE, value |-> v]
Raise == [raised |-> TRUE, value |-> <<>>]

(***************************************************************************)
(* Organization: relations and helpers                                     *)
(***************************************************************************)

\* Organization.parent: the row parent_id names (None when it is NULL).
parent(self) == organization[self.parent_id]

\* Organization.children, the backref of parent: the rows whose parent_id is
\* this row's id.  The query has no ORDER BY: the collection may come in any
\* order, so this is the set of the lists it may be.
childRows(self) == {organization[o] : o \in {x \in DOMAIN organization :
                                              organization[x].parent_id = self.id}}

children(self) ==
  LET S == childRows(self)
      n == Cardinality(S)
  IN {s \in [1..n -> S] : \A i, j \in 1..n : i # j => s[i] # s[j]}

\* The authors of an organization and of its children.
authors_WithChildren(self) ==
  {author[a] : a \in {x \in DOMAIN author :
      \/ author[x].organization_id = self.id
      \/ /\ author[x].organization_id # NULL
         /\ organization[author[x].organization_id].parent_id = self.id}}

\* Organization.authors, the backref of Author.organization: the rows whose
\* organization_id is this row's id.
authors(self) == {author[a] : a \in {x \in DOMAIN author :
                                      author[x].organization_id = self.id}}

\* Organization.number_of_authors
number_of_authors(self) == Cardinality(authors(self))

\* Organization.ancestors, as a call nested `depth` deep.
RECURSIVE ancestorsAt_FarthestFirst(_, _)
ancestorsAt_FarthestFirst(self, depth) ==
  IF depth > RecursionLimit THEN Raise
  ELSE IF self.parent_id = NULL THEN Return(<<>>)
  ELSE LET r == ancestorsAt_FarthestFirst(parent(self), depth + 1)
       IN IF r.raised THEN Raise ELSE Return(r.value \o <<parent(self)>>)

RECURSIVE ancestorsAt(_, _)
ancestorsAt(self, depth) ==
  IF depth > RecursionLimit THEN Raise
  ELSE IF self.parent_id = NULL THEN Return(<<>>)
  ELSE LET r == ancestorsAt(parent(self), depth + 1)
       IN IF r.raised THEN Raise ELSE Return(<<parent(self)>> \o r.value)

ancestors(self) == ancestorsAt(self, 1)

\* Organization.ancestor_ids
ancestor_ids(self) ==
  LET r == ancestors(self)
  IN IF r.raised THEN Raise ELSE Return([i \in 1..Len(r.value) |-> r.value[i].id])

\* str.join
RECURSIVE join(_, _)
join(sep, l) ==
  IF l = <<>> THEN ""
  ELSE IF Len(l) = 1 THEN l[1]
  ELSE l[1] \o sep \o join(sep, Tail(l))

\* reversed
reversed(l) == [i \in 1..Len(l) |-> l[Len(l) + 1 - i]]

\* Organization.descendants: the results the call may have, one per order in
\* which the children collections are loaded.
RECURSIVE descendantsAt(_, _)
RECURSIVE descendantsLoop_PostOrder(_, _)
descendantsLoop_PostOrder(cs, depth) ==
  IF cs = <<>> THEN {Return(<<>>)}
  ELSE {IF d.raised \/ r.raised THEN Raise
        ELSE Return(d.value \o <<Head(cs)>> \o r.value) :
          d \in descendantsAt(Head(cs), depth + 1),
          r \in descendantsLoop_PostOrder(Tail(cs), depth)}

\* The loop over self.children, for the children still to visit.
RECURSIVE descendantsLoop(_, _)
descendantsLoop(cs, depth) ==
  IF cs = <<>> THEN {Return(<<>>)}
  ELSE {IF d.raised \/ r.raised THEN Raise
        ELSE Return(<<Head(cs)>> \o d.value \o r.value) :
          d \in descendantsAt(Head(cs), depth + 1),
          r \in descendantsLoop(Tail(cs), depth)}

descendantsAt(self, depth) ==
  IF depth > RecursionLimit THEN {Raise}
  ELSE UNION {descendantsLoop(cs, depth) : cs \in children(self)}

descendants(self) == descendantsAt(self, 1)

\* Organization.descendant_ids
descendant_ids(self) ==
  {IF r.raised THEN Raise ELSE Return([i \in 1..Len(r.value) |-> r.value[i].id]) :
     r \in descendants(self)}

\* Organization.descendant_tree: the results the call may have.
RECURSIVE descendant_treeAt(_, _)
RECURSIVE descendant_treeLoop_OwnCount(_, _, _)
descendant_treeLoop_OwnCount(self, cs, depth) ==
  IF cs = <<>> THEN {Return(<<>>)}
  ELSE {IF t.raised \/ r.raised THEN Raise
        ELSE Return(<<[id |-> Head(cs).id,
                       name |-> Head(cs).name,
                       children |-> t.value,
                       number_of_authors |-> number_of_authors(self)]>>
                    \o r.value) :
          t \in descendant_treeAt(Head(cs), depth + 1),
          r \in descendant_treeLoop_OwnCount(self, Tail(cs), depth)}

RECURSIVE descendant_treeLoop(_, _, _)
descendant_treeLoop(self, cs, depth) ==
  IF cs = <<>> THEN {Return(<<>>)}
  ELSE {IF t.raised \/ r.raised THEN Raise
        ELSE Return(<<[id |-> Head(cs).id,
                       name |-> Head(cs).name,
                       children |-> t.value,
                       number_of_authors |-> number_of_authors(Head(cs))]>>
                    \o r.value) :
          t \in descendant_treeAt(Head(cs), depth + 1),
          r \in descendant_treeLoop(self, Tail(cs), depth)}

descendant_treeAt(self, depth) ==
  IF depth > RecursionLimit THEN {Raise}
  ELSE UNION {descendant_treeLoop(self, cs, depth) : cs \in children(self)}

descendant_tree(self) == descendant_treeAt(self, 1)

(***************************************************************************)
(* Author: helpers                                                         *)
(***************************************************************************)

\* Author.organization_tree
organization_tree_NearestFirst(self) ==
  IF self.organization_id = NULL THEN Return("")
  ELSE LET org == organization[self.organization_id]
           r == ancestors(org)
           organizations == <<org>> \o r.value
       IN IF r.raised THEN Raise
          ELSE Return(join(" :: ", [i \in 1..Len(organizations) |->
                                      organizations[i].name]))

organization_tree(self) ==
  IF self.organization_id = NULL THEN Return("")
  ELSE LET org == organization[self.organization_id]
           r == ancestors(org)
           organizations == <<org>> \o r.value
       IN IF r.raised THEN Raise
          ELSE Return(join(" :: ", [i \in 1..Len(organizations) |->
                                      reversed(organizations)[i].name]))

(***************************************************************************)
(* The store: initial state and writes                                     *)
(***************************************************************************)

\* db = SQLAlchemy(): every table is empty and no traversal is running.
Init ==
  /\ organization = NoRows
  /\ author = NoRows
  /\ coauthor = {}
  /\ author_citations_per_year = NoRows
  /\ publication = NoRows
  /\ publication_citations_per_year = NoRows
  /\ benchmark = NoRows
  /\ suggestions = NoRows
  /\ cascaded = {}
  /\ walk = Idle

\* A foreign key to `table`: NULL, or the key of one of its rows.
References(table) == DOMAIN table \cup {NULL}

\* INSERT INTO organization: the id is one no row has.
InsertOrganization(id, name, parent_id) ==
  /\ id \notin DOMAIN organization
  /\ parent_id \in References(organization)
  /\ organization' = organization @@
                       (id :> [id |-> id, name |-> name, parent_id |-> parent_id])
  /\ UNCHANGED <<author, coauthor, author_citations_per_year, publication,
                 publication_citations_per_year, benchmark, suggestions, walk,
                 cascaded>>

\* DELETE of an Organization through the session: `children` and `authors`
\* declare no delete cascade, so the rows that name it are kept and their
\* foreign key is set to NULL.
DeleteOrganization(id) ==
  /\ id \in DOMAIN organization
  /\ organization' = [o \in DOMAIN organization \ {id} |->
                        IF organization[o].parent_id = id
                        THEN [organization[o] EXCEPT !.parent_id = NULL]
                        ELSE organization[o]]
  /\ author' = [a \in DOMAIN author |->
                  IF author[a].organization_id = id
                  THEN [author[a] EXCEPT !.organization_id = NULL]
                  ELSE author[a]]
  /\ UNCHANGED <<coauthor, author_citations_per_year, publication,
                 publication_citations_per_year, benchmark, suggestions, walk,
                 cascaded>>

\* INSERT INTO author
InsertAuthor(id, organization_id) ==
  /\ id \notin DOMAIN author
  /\ organization_id \in References(organization)
  /\ author' = author @@ (id :> [id |-> id, organization_id |-> organization_id])
  /\ UNCHANGED <<organization, coauthor, author_citations_per_year, publication,
                 publication_citations_per_year, benchmark, suggestions, walk,
                 cascaded>>

\* UPDATE author SET organization_id
UpdateAuthorOrganization(id, organization_id) ==
  /\ id \in DOMAIN author
  /\ organization_id \in References(organization)
  /\ organization_id # author[id].organization_id
  /\ author' = [author EXCEPT ![id].organization_id = organization_id]
  /\ UNCHANGED <<organization, coauthor, author_citations_per_year, publication,
                 publication_citations_per_year, benchmark, suggestions, walk,
                 cascaded>>

\* UPDATE organization SET parent_id: any row of the table, the row itself
\* included, may become the parent; nothing looks for a cycle.  A traversal
\* that is running counts the write and notes the chain the new state gives
\* the organization it was called on.
UpdateOrganizationParent(id, parent_id) ==
  /\ id \in DOMAIN organization
  /\ parent_id \in References(organization)
  /\ parent_id # organization[id].parent_id
  /\ walk.pc = "run" => walk.writes < MaxWrites
  /\ organization' = [organization EXCEPT ![id].parent_id = parent_id]
  /\ \E self \in {walk.self} :
       walk' = IF walk.pc = "run"
               THEN [walk EXCEPT
                       !.writes = @ + 1,
                       !.views = IF walk.op = "ancestors"
                                 THEN Append(@, ancestor_ids(organization[self.id])')
                                 ELSE @]
               ELSE walk
  /\ UNCHANGED <<author, coauthor, author_citations_per_year, publication,
                 publication_citations_per_year, benchmark, suggestions,
                 cascaded>>

\* The rows of a per-year table that are left when the row `id` of its parent
\* table is deleted: cascade="all, delete-orphan" deletes the parent's rows.
CascadeDelete(table, column, id) ==
  [k \in {x \in DOMAIN table : table[x][column] # id} |-> table[k]]

\* The rows the cascade deleted with the row `id` of their parent table,
\* kept in `cascaded` until the next delete of a parent.
Cascaded(table, column, id) ==
  {table[k] : k \in {x \in DOMAIN table : table[x][column] = id}}

\* DELETE of an Author through the session, without the cascade.
DeleteAuthor_NoCascade(id) ==
  /\ id \in DOMAIN author
  /\ \A r \in coauthor : r.coauthor_id = id => r.author_id = id
  /\ \A s \in DOMAIN suggestions : suggestions[s].author_id # id
  /\ author' = [a \in DOMAIN author \ {id} |-> author[a]]
  /\ coauthor' = {r \in coauthor : r.author_id # id}
  /\ cascaded' = {}
  /\ UNCHANGED <<organization, author_citations_per_year, publication,
                 publication_citations_per_year, benchmark, suggestions, walk>>

\* DELETE of an Author through the session: its per-year rows and the
\* coauthor rows it is the source of go with it, in the same flush.  The
\* store refuses the delete while another row still names the author.
DeleteAuthor(id) ==
  /\ id \in DOMAIN author
  /\ \A r \in coauthor : r.coauthor_id = id => r.author_id = id
  /\ \A s \in DOMAIN suggestions : suggestions[s].author_id # id
  /\ author' = [a \in DOMAIN author \ {id} |-> author[a]]
  /\ coauthor' = {r \in coauthor : r.author_id # id}
  /\ author_citations_per_year' =
       CascadeDelete(author_citations_per_year, "author_id", id)
  /\ cascaded' = Cascaded(author_citations_per_year, "author_id", id)
  /\ UNCHANGED <<organization, publication, publication_citations_per_year,
                 benchmark, suggestions, walk>>

\* INSERT INTO author_citations_per_year: (author_id, year) is the key.
InsertAuthorCitationsPerYear(author_id, year, citations) ==
  /\ author_id \in DOMAIN author
  /\ <<author_id, year>> \notin DOMAIN author_citations_per_year
  /\ author_citations_per_year' = author_citations_per_year @@
       (<<author_id, year>> :>
          [author_id |-> author_id, year |-> year, citations |-> citations])
  /\ UNCHANGED <<organization, author, coauthor, publication,
                 publication_citations_per_year, benchmark, suggestions, walk,
                 cascaded>>

\* DELETE of one AuthorCitationsPerYear row.
DeleteAuthorCitationsPerYear(author_id, year) ==
  /\ <<author_id, year>> \in DOMAIN author_citations_per_year
  /\ author_citations_per_year' =
       [k \in DOMAIN author_citations_per_year \ {<<author_id, year>>} |->
          author_citations_per_year[k]]
  /\ UNCHANGED <<organization, author, coauthor, publication,
                 publication_citations_per_year, benchmark, suggestions, walk,
                 cascaded>>

\* INSERT INTO publication
InsertPublication(id) ==
  /\ id \notin DOMAIN publication
  /\ publication' = publication @@ (id :> [id |-> id])
  /\ UNCHANGED <<organization, author, coauthor, author_citations_per_year,
                 publication_citations_per_year, benchmark, suggestions, walk,
                 cascaded>>

\* DELETE of a Publication through the session, with its per-year rows.
DeletePublication(id) ==
  /\ id \in DOMAIN publication
  /\ publication' = [q \in DOMAIN publication \ {id} |-> publication[q]]
  /\ publication_citations_per_year' =
       CascadeDelete(publication_citations_per_year, "publication_id", id)
  /\ cascaded' = Cascaded(publication_citations_per_year, "publication_id", id)
  /\ UNCHANGED <<organization, author, coauthor, author_citations_per_year,
                 benchmark, suggestions, walk>>

\* INSERT INTO publication_citations_per_year: (publication_id, year) is the key.
InsertPublicationCitationsPerYear(publication_id, year, citations) ==
  /\ publication_id \in DOMAIN publication
  /\ <<publication_id, year>> \notin DOMAIN publication_citations_per_year
  /\ publication_citations_per_year' = publication_citations_per_year @@
       (<<publication_id, year>> :>
          [publication_id |-> publication_id, year |-> year,
           citations |-> citations])
  /\ UNCHANGED <<organization, author, coauthor, author_citations_per_year,
                 publication, benchmark, suggestions, walk,
                 cascaded>>

\* DELETE of one PublicationCitationsPerYear row.
DeletePublicationCitationsPerYear(publication_id, year) ==
  /\ <<publication_id, year>> \in DOMAIN publication_citations_per_year
  /\ publication_citations_per_year' =
       [k \in DOMAIN publication_citations_per_year \ {<<publication_id, year>>} |->
          publication_citations_per_year[k]]
  /\ UNCHANGED <<organization, author, coauthor, author_citations_per_year,
                 publication, benchmark, suggestions, walk,
                 cascaded>>

\* Author.coauthors: the authors joined through the rows of coauthor whose
\* author_id is this author (primaryjoin) by their coauthor_id (secondaryjoin).
coauthors_BothDirections(self) ==
  {author[r.coauthor_id] : r \in {x \in coauthor : x.author_id = self.id}}
    \cup {author[r.author_id] : r \in {x \in coauthor : x.coauthor_id = self.id}}

coauthors(self) ==
  {author[r.coauthor_id] : r \in {x \in coauthor : x.author_id = self.id}}

\* X.coauthors.append(Y): INSERT INTO coauthor (author_id, coauthor_id).
InsertCoauthor(author_id, coauthor_id) ==
  /\ author_id \in DOMAIN author
  /\ coauthor_id \in DOMAIN author
  /\ [author_id |-> author_id, coauthor_id |-> coauthor_id] \notin coauthor
  /\ coauthor' = coauthor \cup
                   {[author_id |-> author_id, coauthor_id |-> coauthor_id]}
  /\ UNCHANGED <<organization, author, author_citations_per_year, publication,
                 publication_citations_per_year, benchmark, suggestions, walk,
                 cascaded>>

\* X.coauthors.remove(Y): DELETE FROM coauthor.
DeleteCoauthor(author_id, coauthor_id) ==
  /\ [author_id |-> author_id, coauthor_id |-> coauthor_id] \in coauthor
  /\ coauthor' = coauthor \
                   {[author_id |-> author_id, coauthor_id |-> coauthor_id]}
  /\ UNCHANGED <<organization, author, author_citations_per_year, publication,
                 publication_citations_per_year, benchmark, suggestions, walk,
                 cascaded>>

\* INSERT INTO benchmark
InsertBenchmark(id) ==
  /\ id \notin DOMAIN benchmark
  /\ benchmark' = benchmark @@ (id :> [id |-> id])
  /\ UNCHANGED <<organization, author, coauthor, author_citations_per_year,
                 publication, publication_citations_per_year, suggestions, walk,
                 cascaded>>

\* DELETE FROM benchmark: refused while a suggestion names the benchmark.
DeleteBenchmark(id) ==
  /\ id \in DOMAIN benchmark
  /\ \A s \in DOMAIN suggestions : suggestions[s].benchmark_id # id
  /\ benchmark' = [b \in DOMAIN benchmark \ {id} |-> benchmark[b]]
  /\ UNCHANGED <<organization, author, coauthor, author_citations_per_year,
                 publication, publication_citations_per_year, suggestions, walk,
                 cascaded>>

\* INSERT INTO suggestions: author_id is declared nullable=True and
\* benchmark_id declares no nullable at all, so both columns take NULL.
InsertSuggestion(id, author_id, benchmark_id) ==
  /\ id \notin DOMAIN suggestions
  /\ author_id \in References(author)
  /\ benchmark_id \in References(benchmark)
  /\ suggestions' = suggestions @@
       (id :> [id |-> id, author_id |-> author_id, benchmark_id |-> benchmark_id])
  /\ UNCHANGED <<organization, author, coauthor, author_citations_per_year,
                 publication, publication_citations_per_year, benchmark, walk,
                 cascaded>>

\* UPDATE suggestions SET author_id, benchmark_id
UpdateSuggestion(id, author_id, benchmark_id) ==
  /\ id \in DOMAIN suggestions
  /\ author_id \in References(author)
  /\ benchmark_id \in References(benchmark)
  /\ <<author_id, benchmark_id>> #
       <<suggestions[id].author_id, suggestions[id].benchmark_id>>
  /\ suggestions' = [suggestions EXCEPT ![id].author_id = author_id,
                                        ![id].benchmark_id = benchmark_id]
  /\ UNCHANGED <<organization, author, coauthor, author_citations_per_year,
                 publication, publication_citations_per_year, benchmark, walk,
                 cascaded>>

\* DELETE FROM suggestions
DeleteSuggestion(id) ==
  /\ id \in DOMAIN suggestions
  /\ suggestions' = [s \in DOMAIN suggestions \ {id} |-> suggestions[s]]
  /\ UNCHANGED <<organization, author, coauthor, author_citations_per_year,
                 publication, publication_citations_per_year, benchmark, walk,
                 cascaded>>

(***************************************************************************)
(* Traversals, one fetch at a time.  `walk` is the call in progress: the   *)
(* row it was called on, the rows appended so far, for descendants() the   *)
(* children each open frame has still to visit, the number of writes that *)
(* came in between its fetches and, for ancestors(), the chain the table   *)
(* held at the call and after each of those writes.                        *)
(***************************************************************************)

\* The organizations are inserted, all of them roots; no call is in progress.
InitWalk ==
  /\ organization = [o \in WalkOrgIds |->
                       [id |-> o, name |-> Names[o], parent_id |-> NULL]]
  /\ author = NoRows
  /\ coauthor = {}
  /\ author_citations_per_year = NoRows
  /\ publication = NoRows
  /\ publication_citations_per_year = NoRows
  /\ benchmark = NoRows
  /\ suggestions = NoRows
  /\ cascaded = {}
  /\ walk = Idle

Tables == <<organization, author, coauthor, author_citations_per_year,
            publication, publication_citations_per_year, benchmark,
            suggestions, cascaded>>

Ids(rows) == [i \in 1..Len(rows) |-> rows[i].id]

\* org.ancestors() is called: the first frame is entered.
CallAncestors(id) ==
  /\ walk.pc = "idle"
  /\ id \in DOMAIN organization
  /\ walk' = [pc |-> "run", op |-> "ancestors", self |-> organization[id],
              acc |-> <<>>, stack |-> <<>>, writes |-> 0,
              views |-> <<ancestor_ids(organization[id])>>]
  /\ UNCHANGED Tables

\* The innermost frame of ancestors() with a guard against cycles: it stops
\* at a parent it has already met.
AncestorsStep_CycleGuard ==
  /\ walk.pc = "run"
  /\ walk.op = "ancestors"
  /\ LET cur == IF walk.acc = <<>> THEN walk.self ELSE walk.acc[Len(walk.acc)]
         seen == {walk.self.id} \cup {walk.acc[i].id : i \in 1..Len(walk.acc)}
     IN walk' = IF cur.parent_id = NULL \/ cur.parent_id \in seen
                THEN [walk EXCEPT !.pc = "done"]
                ELSE IF Len(walk.acc) + 2 > RecursionLimit
                THEN [walk EXCEPT !.pc = "raised"]
                ELSE [walk EXCEPT !.acc = Append(@, organization[cur.parent_id])]
  /\ UNCHANGED Tables

\* The innermost frame of ancestors() without the recursive call: it returns
\* [self.parent].
AncestorsStep_NoRecursion ==
  /\ walk.pc = "run"
  /\ walk.op = "ancestors"
  /\ LET cur == IF walk.acc = <<>> THEN walk.self ELSE walk.acc[Len(walk.acc)]
     IN walk' = IF cur.parent_id = NULL
                THEN [walk EXCEPT !.pc = "done"]
                ELSE [walk EXCEPT !.pc = "done",
                                  !.acc = Append(@, organization[cur.parent_id])]
  /\ UNCHANGED Tables

\* The innermost frame of ancestors() runs: without a parent it returns and
\* the frames above it return the list; with one it fetches the parent row,
\* appends it and calls ancestors() on it, which the interpreter refuses
\* with RecursionError past its limit of nested calls.
AncestorsStep ==
  /\ walk.pc = "run"
  /\ walk.op = "ancestors"
  /\ LET cur == IF walk.acc = <<>> THEN walk.self ELSE walk.acc[Len(walk.acc)]
     IN walk' = IF cur.parent_id = NULL
                THEN [walk EXCEPT !.pc = "done"]
                ELSE IF Len(walk.acc) + 2 > RecursionLimit
                THEN [walk EXCEPT !.pc = "raised"]
                ELSE [walk EXCEPT !.acc = Append(@, organization[cur.parent_id])]
  /\ UNCHANGED Tables

\* org.descendants() is called: the first frame loads its children.
CallDescendants(id) ==
  /\ walk.pc = "idle"
  /\ id \in DOMAIN organization
  /\ \E cs \in children(organization[id]) :
       walk' = [pc |-> "run", op |-> "descendants", self |-> organization[id],
                acc |-> <<>>, stack |-> <<cs>>, writes |-> 0, views |-> <<>>]
  /\ UNCHANGED Tables

\* The innermost frame of descendants() runs: with no child left it returns;
\* else it appends the next child and calls descendants() on it, which
\* loads that child's children.
DescendantsStep ==
  /\ walk.pc = "run"
  /\ walk.op = "descendants"
  /\ LET d == Len(walk.stack)
         top == walk.stack[d]
     IN IF top = <<>>
        THEN walk' = IF d = 1
                     THEN [walk EXCEPT !.pc = "done", !.stack = <<>>]
                     ELSE [walk EXCEPT !.stack = SubSeq(@, 1, d - 1)]
        ELSE IF d + 1 > RecursionLimit
        THEN walk' = [walk EXCEPT !.pc = "raised",
                                  !.acc = Append(@, Head(top))]
        ELSE \E cs \in children(Head(top)) :
               walk' = [walk EXCEPT !.acc = Append(@, Head(top)),
                                    !.stack = Append([@ EXCEPT ![d] = Tail(top)], cs)]
  /\ UNCHANGED Tables

\* The caller has the result, or the exception: no call is in progress.
EndCall ==
  /\ walk.pc \in {"done", "raised"}
  /\ walk' = Idle
  /\ UNCHANGED Tables

(***************************************************************************)
(* Specifications                                                          *)
(***************************************************************************)

\* The organization hierarchy and the authors in it.
NextOrg ==
  \/ \E id \in OrgIds, p \in OrgIds \cup {NULL} :
       InsertOrganization(id, Names[id], p)
  \/ \E id \in OrgIds, p \in OrgIds \cup {NULL} : UpdateOrganizationParent(id, p)
  \/ \E id \in OrgIds : DeleteOrganization(id)
  \/ \E id \in AuthorIds, o \in OrgIds \cup {NULL} : InsertAuthor(id, o)
  \/ \E id \in AuthorIds, o \in OrgIds \cup {NULL} : UpdateAuthorOrganization(id, o)
  \/ \E id \in AuthorIds : DeleteAuthor(id)

Spec == Init /\ [][NextOrg]_vars

\* The organization hierarchy alone, with more organizations.
NextTree ==
  \/ \E id \in TreeOrgIds, p \in TreeOrgIds \cup {NULL} :
       InsertOrganization(id, Names[id], p)
  \/ \E id \in TreeOrgIds, p \in TreeOrgIds \cup {NULL} :
       UpdateOrganizationParent(id, p)
  \/ \E id \in TreeOrgIds : DeleteOrganization(id)

SpecTree == Init /\ [][NextTree]_vars

\* Traversals of a hierarchy that one thread writes and reads in turn.  The
\* thread that runs a traversal keeps running.
NextRecursion ==
  \/ \E id \in WalkOrgIds, p \in WalkOrgIds \cup {NULL} :
       walk.pc = "idle" /\ UpdateOrganizationParent(id, p)
  \/ \E id \in WalkOrgIds : CallAncestors(id)
  \/ AncestorsStep
  \/ \E id \in WalkOrgIds : CallDescendants(id)
  \/ DescendantsStep
  \/ EndCall

SpecRecursion ==
  /\ InitWalk
  /\ [][NextRecursion]_vars
  /\ WF_vars(AncestorsStep)
  /\ WF_vars(DescendantsStep)

\* ancestors() while other sessions reparent organizations before the call
\* and between its fetches.  A write that comes after the call has returned
\* is taken after the caller has its result: it is a write before the next
\* call.
NextWalk ==
  \/ \E id \in WalkOrgIds, p \in WalkOrgIds \cup {NULL} :
       walk.pc \in {"idle", "run"} /\ UpdateOrganizationParent(id, p)
  \/ \E id \in WalkOrgIds : CallAncestors(id)
  \/ AncestorsStep
  \/ EndCall

SpecWalk == InitWalk /\ [][NextWalk]_vars

\* Authors, publications and their per-year citation rows.
NextCitations ==
  \/ \E id \in AuthorIds : InsertAuthor(id, NULL)
  \/ \E id \in AuthorIds : DeleteAuthor(id)
  \/ \E id \in AuthorIds, y \in Years, c \in Citations :
       InsertAuthorCitationsPerYear(id, y, c)
  \/ \E id \in AuthorIds, y \in Years : DeleteAuthorCitationsPerYear(id, y)
  \/ \E id \in PublicationIds : InsertPublication(id)
  \/ \E id \in PublicationIds : DeletePublication(id)
  \/ \E id \in PublicationIds, y \in Years, c \in Citations :
       InsertPublicationCitationsPerYear(id, y, c)
  \/ \E id \in PublicationIds, y \in Years :
       DeletePublicationCitationsPerYear(id, y)

SpecCitations == Init /\ [][NextCitations]_vars

\* Authors and the coauthor table.
NextCoauthors ==
  \/ \E id \in CoauthorIds : InsertAuthor(id, NULL)
  \/ \E id \in CoauthorIds : DeleteAuthor(id)
  \/ \E x, y \in CoauthorIds : InsertCoauthor(x, y)
  \/ \E x, y \in CoauthorIds : DeleteCoauthor(x, y)

SpecCoauthors == Init /\ [][NextCoauthors]_vars

\* Benchmarks, authors and suggestions.
NextSuggestions ==
  \/ \E id \in AuthorIds : InsertAuthor(id, NULL)
  \/ \E id \in AuthorIds : DeleteAuthor(id)
  \/ \E id \in BenchmarkIds : InsertBenchmark(id)
  \/ \E id \in BenchmarkIds : DeleteBenchmark(id)
  \/ \E id \in SuggestionIds, a \in AuthorIds \cup {NULL},
        b \in BenchmarkIds \cup {NULL} : InsertSuggestion(id, a, b)
  \/ \E id \in SuggestionIds, a \in AuthorIds \cup {NULL},
        b \in BenchmarkIds \cup {NULL} : UpdateSuggestion(id, a, b)
  \/ \E id \in SuggestionIds : DeleteSuggestion(id)

SpecSuggestions == Init /\ [][NextSuggestions]_vars

(***************************************************************************)
(* Properties: the hierarchy                                               *)
(***************************************************************************)

\* The id reached from `id` by following parent_id k times (NULL past a root).
RECURSIVE Up(_, _)
Up(id, k) ==
  IF k = 0 \/ id = NULL THEN id ELSE Up(organization[id].parent_id, k - 1)

NumOrgs == Cardinality(DOMAIN organization)

\* The parent pointers form a forest: every chain reaches a root.
Acyclic == \A o \in DOMAIN organization : Up(o, NumOrgs) = NULL

\* The number of proper ancestors of an organization of a forest.
Depth(id) == Cardinality({k \in 1..NumOrgs : Up(id, k) # NULL})

\* The organizations that have `id` as a proper ancestor.
ProperDescendants(id) ==
  {d \in DOMAIN organization : \E k \in 1..NumOrgs : Up(d, k) = id}

\* C1: in a forest, ancestors(O) is the chain parent(O), parent(parent(O)),
\* ..., root, nearest first and ending with the root; it is empty for a root;
\* ancestor_ids(O) is the same chain as ids.
C1_AncestorsChain ==
  Acyclic =>
    \A o \in DOMAIN organization :
      LET self == organization[o]
          r == ancestors(self)
          ids == ancestor_ids(self)
          n == Depth(o)
      IN /\ ~r.raised
         /\ Len(r.value) = n
         /\ \A i \in 1..n : r.value[i] = organization[Up(o, i)]
         /\ n > 0 => r.value[n].parent_id = NULL
         /\ self.parent_id = NULL => r.value = <<>>
         /\ ~ids.raised
         /\ Len(ids.value) = n
         /\ \A i \in 1..n : ids.value[i] = Up(o, i)

\* A forest in which some organization has three ancestors or more.
C1_Witness ==
  /\ Acyclic
  /\ \E o \in DOMAIN organization :
       /\ Len(ancestors(organization[o]).value) >= 3
       /\ Len(ancestor_ids(organization[o]).value) >= 3

\* C2: in a forest, whatever the order the children are loaded in,
\* descendant_ids(O) holds no id twice, holds the organizations that have O
\* as a proper ancestor and no other, and is a pre-order: each organization
\* is followed at once by all of its own descendants.
C2_DescendantsPreOrder ==
  Acyclic =>
    \A o \in DOMAIN organization :
      \A r \in descendant_ids(organization[o]) :
        LET l == r.value
            n == Len(l)
        IN /\ ~r.raised
           /\ \A i, j \in 1..n : i # j => l[i] # l[j]
           /\ {l[i] : i \in 1..n} = ProperDescendants(o)
           /\ \A i \in 1..n :
                LET D == ProperDescendants(l[i])
                IN /\ i + Cardinality(D) <= n
                   /\ {l[j] : j \in (i + 1)..(i + Cardinality(D))} = D

\* A forest in which an organization has two children or more, one of them
\* with a child of its own.
C2_Witness ==
  /\ Acyclic
  /\ \E o \in DOMAIN organization :
       /\ Cardinality(childRows(organization[o])) >= 2
       /\ \E c \in childRows(organization[o]) : childRows(c) # {}
       /\ \E r \in descendant_ids(organization[o]) : Len(r.value) >= 3

\* The names from the root of a forest down to an organization, " :: " between.
RECURSIVE PathFromRoot(_)
PathFromRoot(id) ==
  IF organization[id].parent_id = NULL THEN organization[id].name
  ELSE PathFromRoot(organization[id].parent_id) \o " :: " \o organization[id].name

\* C3: in a forest, organization_tree(A) is the names of the chain from the
\* root to A's organization, root first, joined by " :: "; it is the empty
\* string when A has no organization.
C3_OrganizationTree ==
  Acyclic =>
    \A a \in DOMAIN author :
      organization_tree(author[a]) =
        Return(IF author[a].organization_id = NULL THEN ""
               ELSE PathFromRoot(author[a].organization_id))

\* A forest with an author in an organization that has a grandparent, and an
\* author with no organization.
C3_Witness ==
  /\ Acyclic
  /\ \E a \in DOMAIN author :
       /\ author[a].organization_id # NULL
       /\ Depth(author[a].organization_id) >= 2
       /\ organization_tree(author[a]) = Return("A :: B :: C")
  /\ \E a \in DOMAIN author :
       /\ author[a].organization_id = NULL
       /\ organization_tree(author[a]) = Return("")

\* The number of authors with id up to n whose organization_id is `id`.
RECURSIVE CountAuthors(_, _)
CountAuthors(id, n) ==
  IF n = 0 THEN 0
  ELSE CountAuthors(id, n - 1) +
         (IF n \in DOMAIN author /\ author[n].organization_id = id THEN 1 ELSE 0)

\* C4: number_of_authors(O) is the number of authors whose organization_id
\* is O.id, the authors of O's descendants not counted.
C4_NumberOfAuthors ==
  \A o \in DOMAIN organization :
    number_of_authors(organization[o]) = CountAuthors(o, MaxAuthor)

\* An organization with an author of its own and a descendant with another.
C4_Witness ==
  \E o \in DOMAIN organization :
    /\ number_of_authors(organization[o]) = 1
    /\ \E d \in ProperDescendants(o) :
         d # o /\ number_of_authors(organization[d]) >= 1

\* C6: in a forest, descendant_tree(O) has one entry for each child c of O
\* and no other, with c's id and name, with descendant_tree(c) as its
\* children and number_of_authors(c) as its count; it is empty when O has
\* no children.
C6_DescendantTree ==
  Acyclic =>
    \A o \in DOMAIN organization :
      \A t \in descendant_tree(organization[o]) :
        LET l == t.value
            n == Len(l)
            C == {c \in DOMAIN organization : organization[c].parent_id = o}
        IN /\ ~t.raised
           /\ n = Cardinality(C)
           /\ {l[i].id : i \in 1..n} = C
           /\ C = {} => l = <<>>
           /\ \A i \in 1..n :
                /\ l[i].name = organization[l[i].id].name
                /\ Return(l[i].children) \in descendant_tree(organization[l[i].id])
                /\ l[i].number_of_authors = CountAuthors(l[i].id, MaxAuthor)

\* A forest in which an organization has a child with an author and with a
\* child of its own, and another has no children.
C6_Witness ==
  /\ Acyclic
  /\ \E o \in DOMAIN organization :
       \E t \in descendant_tree(organization[o]) :
         /\ Len(t.value) = 1
         /\ Len(t.value[1].children) = 1
         /\ t.value[1].number_of_authors >= 1
         /\ number_of_authors(organization[o]) = 0
  /\ \E o \in DOMAIN organization : descendant_tree(organization[o]) = {Return(<<>>)}

(***************************************************************************)
(* Properties: the tables                                                  *)
(***************************************************************************)

\* C5: no per-year row is left without its author or its publication: the
\* delete of the parent takes its rows with it in the same step.
C5_NoOrphanRows ==
  /\ \A k \in DOMAIN author_citations_per_year :
       author_citations_per_year[k].author_id \in DOMAIN author
  /\ \A k \in DOMAIN publication_citations_per_year :
       publication_citations_per_year[k].publication_id \in DOMAIN publication

\* An author or a publication was deleted together with per-year rows of its
\* own while rows of another parent stayed.
C5_Witness ==
  /\ cascaded # {}
  /\ DOMAIN author_citations_per_year # {}
  /\ DOMAIN publication_citations_per_year # {}
  /\ \A r \in cascaded :
       \/ "author_id" \in DOMAIN r /\ r.author_id \notin DOMAIN author
       \/ "publication_id" \in DOMAIN r /\ r.publication_id \notin DOMAIN publication

Edge(x, y) == [author_id |-> x, coauthor_id |-> y]

\* C7: the coauthor relation is directed.  Y is in coauthors(X) exactly when
\* the table holds the edge from X to Y, and the insert of an edge from X
\* changes the coauthors of no author but X.
C7_CoauthorsDirected ==
  /\ [](\A x, y \in DOMAIN author :
          author[y] \in coauthors(author[x]) <=> Edge(x, y) \in coauthor)
  /\ [][\A x, y \in DOMAIN author :
          (Edge(x, y) \notin coauthor /\ coauthor' = coauthor \cup {Edge(x, y)})
            => \A z \in DOMAIN author \ {x} :
                 /\ z \in DOMAIN author'
                 /\ coauthors(author[z])' = coauthors(author[z])]_vars

\* The edge from X to Y is stored without its reverse: Y is a coauthor of X
\* and Y has no coauthors.
C7_Witness ==
  \E x, y \in DOMAIN author :
    /\ x # y
    /\ Edge(x, y) \in coauthor
    /\ Edge(y, x) \notin coauthor
    /\ author[y] \in coauthors(author[x])
    /\ coauthors(author[y]) = {}

\* C8: every stored suggestion names an existing benchmark.
C8_SuggestionHasBenchmark ==
  \A s \in DOMAIN suggestions : suggestions[s].benchmark_id \in DOMAIN benchmark

(***************************************************************************)
(* Properties: the traversals                                              *)
(***************************************************************************)

\* The parent chain of an organization ends at a root.
ReachesRoot(id) == \E k \in 1..NumOrgs : Up(id, k) = NULL

\* An organization is its own proper ancestor.
OnCycle(id) == \E k \in 1..NumOrgs : Up(id, k) = id

====
